---- MODULE Spec2Model ----
(***************************************************************************)
(* Model of mediaverse: the Telegram inline-query handler (src/index.ts),  *)
(* the provider catalog cache (getWatchProviders) and the interactive      *)
(* command-line search flow (userSearch / getAnswerFromUser /              *)
(* handleUserInput).                                                       *)
(***************************************************************************)
EXTENDS Integers, Sequences, FiniteSets, TLC

\* ------------------------------------------------------------------ bounds
MaxResults == 2      \* longest upstream result list of the one-query runs
MaxRace == 1         \* longest upstream result list of the two-query runs
MaxOver == 1         \* how far an upstream list may exceed the slice limit
MaxCalls == 3        \* calls of getWatchProviders in a run
MaxPages == 2        \* largest total_pages of a search response
MaxShown == 2        \* longest result list of one page of the interactive flow
MaxPrompts == 3      \* prompts of one handleUserInput chain that a run follows
MaxText == 2         \* longest text handed to escapeRegExp on its own

\* ------------------------------------------------------- program constants
SLICE_END == 10      \* results.slice(0, 10)

Media == {"movie", "tv"}
QueryIds == {1, 2}   \* inlineQuery.id of the inline queries of a run

Min(a, b) == IF a < b THEN a ELSE b

\* ------------------------------------------------------------------ state
VARIABLES
    env,        \* the upstream's possible answers in this run (frozen)
    pc,         \* per inline query: which await the handler is parked at
    arrived,    \* inline queries in order of arrival
    search,     \* per query and media type: state of the search fetch
    bodyKind,   \* per query and media type: what the search fetch resolved with
    raw,        \* per query and media type: `results` of the search body
    provFetch,  \* per query and media type: ids passed to getWatchProvidersByMediaId
    slots,      \* per query and media type: the array given to Promise.all
    mapped,     \* per query and media type: value of getInlineResultsMap
    answers,    \* calls of bot.answerInlineQuery, in call order
    overtook,   \* per query: a watch-provider fetch settled before an earlier one
    WATCH_PROVIDERS,  \* the module-level Map: media type -> catalog
    calls,            \* the getWatchProviders calls of the run
    catalogFetches,   \* per media type: catalog fetches issued so far
    cli,              \* the interactive search flow (userSearch and its callees)
    fmt,              \* one run of the map callback's formatting, with its input
    esc,              \* one call of escapeRegExp, with its input
    req               \* one call of fetch, event by event

inlineVars == <<env, pc, arrived, search, bodyKind, raw, provFetch, slots, mapped, answers, overtook>>
cacheVars == <<WATCH_PROVIDERS, calls, catalogFetches>>
pureVars == <<fmt, esc, req>>
vars == <<inlineVars, cacheVars, cli, pureVars>>

\* ------------------------------------------------------------ JSON bodies
\* Body of a search response (Search<MediaType>), or the JSON value null.
SearchBody(hasResults, results, total_pages) ==
    [isNull |-> FALSE, hasResults |-> hasResults, results |-> results,
     total_pages |-> total_pages]
NullSearchBody ==
    [isNull |-> TRUE, hasResults |-> FALSE, results |-> <<>>, total_pages |-> 0]

\* Body of a /{type}/{id}/watch/providers response, or the JSON value null.
ProviderBody(hasResults, hasUS, hasFlatrate, flatrate) ==
    [isNull |-> FALSE, hasResults |-> hasResults, hasUS |-> hasUS,
     hasFlatrate |-> hasFlatrate, flatrate |-> flatrate]
NullProviderBody ==
    [isNull |-> TRUE, hasResults |-> FALSE, hasUS |-> FALSE,
     hasFlatrate |-> FALSE, flatrate |-> <<>>]

\* What https.get delivers for one request.
HttpResponse(error, statusCode, valid, json) ==
    [error |-> error, statusCode |-> statusCode, valid |-> valid, json |-> json]

\* Mutant: the status check with && in place of ||.
statusOk_and(statusCode) == statusCode >= 200 /\ statusCode <= 299

\* if (res.statusCode >= 200 || res.statusCode <= 299)
statusOk(statusCode) == statusCode >= 200 \/ statusCode <= 299

\* fetch: what the promise settles with, given all that the request delivers.
fetch(res) ==
    IF res.error
    THEN [settled |-> "rejected", reason |-> "transport", value |-> res.json]
    ELSE IF statusOk(res.statusCode)
         THEN IF res.valid
              THEN [settled |-> "resolved", reason |-> "none", value |-> res.json]
              ELSE [settled |-> "rejected", reason |-> "parse", value |-> res.json]
         ELSE [settled |-> "rejected", reason |-> "status", value |-> res.json]

\* ---------------------------------------------------------------- strings
\* A string is the sequence of its characters.
Digits == <<"0", "1", "2", "3", "4", "5", "6", "7", "8", "9">>

\* Number.prototype.toString of a non-negative integer.
RECURSIVE toString(_)
toString(n) ==
    IF n < 10 THEN <<Digits[n + 1]>>
    ELSE toString(n \div 10) \o <<Digits[(n % 10) + 1]>>

\* The text of a value that may be undefined.
Defined(text) == [defined |-> TRUE, text |-> text]
Absent == [defined |-> FALSE, text |-> <<>>]

\* --------------------------------------------------- upstream answer sets
\* The key that tells the variant of a raw result: 'title' or 'name'.
KeyOf(type) == IF type = "movie" THEN "title" ELSE "name"

\* Ids are distinct and not monotonic in the position.
IdAt(type, k) == (IF type = "movie" THEN 0 ELSE 100) + ((k * 7) % 17) + 1

\* Titles and dates of the upstream's results.
Titles == { <<"T", "h", "e", " ", "T", "e", "r", "m", "i", "n", "a", "t", "o", "r">>, <<"A", ".", "I", ".">>, <<"U", "p">> }
Dates == { Defined(<<"1", "9", "8", "4", "-", "1", "0", "-", "2", "6">>), Defined(<<"2", "0", "0", "0", "-", "0", "1", "-", "0", "1">>), Defined(<<>>), Absent }

TitleAt(k) == IF k % 2 = 1 THEN <<"A", ".", "I", ".">> ELSE <<"U", "p">>
DateAt(k) ==
    CASE k % 4 = 1 -> Defined(<<"1", "9", "8", "4", "-", "1", "0", "-", "2", "6">>)
      [] k % 4 = 2 -> Defined(<<>>)
      [] k % 4 = 3 -> Absent
      [] OTHER -> Defined(<<"2", "0", "0", "0", "-", "0", "1", "-", "0", "1">>)

\* A raw result: its id, the key of its variant ('title' or 'name') with the
\* value under that key, and its release_date / first_air_date.
RawResult(id, key, title, date) ==
    [id |-> id, key |-> key, title |-> title, date |-> date]

RawLists(type, lens, keys) ==
    UNION { { [k \in 1..n |-> RawResult(IdAt(type, k), ks[k], TitleAt(k), DateAt(k))] :
              ks \in [1..n -> keys] } : n \in lens }

StatusCodes == {200, 404}

SearchResponses(lists) ==
    { HttpResponse(FALSE, sc, TRUE, SearchBody(TRUE, l, tp)) :
        sc \in StatusCodes, l \in lists, tp \in 0..MaxPages }
    \cup { HttpResponse(FALSE, 404, TRUE, SearchBody(FALSE, <<>>, 0)),
           HttpResponse(FALSE, 200, TRUE, NullSearchBody),
           HttpResponse(FALSE, 200, FALSE, NullSearchBody),
           HttpResponse(TRUE, 0, FALSE, NullSearchBody) }

Netflix == <<"N", "e", "t", "f", "l", "i", "x">>
Hulu == <<"H", "u", "l", "u">>

AllProviderBodies ==
    { ProviderBody(FALSE, FALSE, FALSE, <<>>),
      ProviderBody(TRUE, FALSE, FALSE, <<>>),
      ProviderBody(TRUE, TRUE, FALSE, <<>>),
      ProviderBody(TRUE, TRUE, TRUE, <<>>),
      ProviderBody(TRUE, TRUE, TRUE, <<Netflix>>),
      ProviderBody(TRUE, TRUE, TRUE, <<Netflix, Hulu>>) }

ProviderResponses(bodies, withNull) ==
    { HttpResponse(FALSE, 200, TRUE, b) : b \in bodies }
    \cup { HttpResponse(TRUE, 0, FALSE, NullProviderBody) }
    \cup (IF withNull THEN { HttpResponse(FALSE, 200, TRUE, NullProviderBody),
                             HttpResponse(FALSE, 200, FALSE, NullProviderBody) }
          ELSE {})

\* -------------------------------------------------------- result formatter
\* Offsets of the process's local time zone from UTC, in sign.
TimeZones == {-1, 0, 1}

DigitVal(c) == CHOOSE d \in 0..9 : Digits[d + 1] = c
Num(text) == IF text = <<>> THEN 0
             ELSE LET RECURSIVE val(_)
                      val(t) == IF t = <<>> THEN 0
                                ELSE 10 * val(SubSeq(t, 1, Len(t) - 1)) + DigitVal(t[Len(t)])
                  IN val(text)

\* new Date("YYYY-MM-DD"): midnight UTC of that day.
parseDate(text) ==
    [year |-> Num(SubSeq(text, 1, 4)), month |-> Num(SubSeq(text, 6, 7)),
     day |-> Num(SubSeq(text, 9, 10))]

\* Date.prototype.getFullYear: the year in local time; west of UTC the
\* midnight of January 1st still lies in the year before.
getFullYear(date, tz) ==
    IF tz < 0 /\ date.month = 1 /\ date.day = 1 THEN date.year - 1 ELSE date.year

\* let title: the value under the variant's key.
titleOf(result, type) ==
    IF result.key = KeyOf(type) THEN Defined(result.title) ELSE Absent

\* let date: release_date or first_air_date.
dateOf(result, type) ==
    IF type = "movie"
    THEN IF result.key = "title" THEN result.date ELSE Absent
    ELSE result.date

\* const year = date ? new Date(date).getFullYear() : undefined
yearOf(date, tz) ==
    IF date.defined /\ date.text # <<>>
    THEN Defined(toString(getFullYear(parseDate(date.text), tz)))
    ELSE Absent

\* A value inside a template literal: undefined reads "undefined".
String(v) == IF v.defined THEN v.text ELSE <<"u", "n", "d", "e", "f", "i", "n", "e", "d">>

\* `${title} (${year})`
titleText(title, year) == String(title) \o <<" ", "(">> \o String(year) \o <<")">>

\* The lines appended to `watch`, each of them followed by "\n" in the text.
watchText(providers) ==
    IF providers.hasResults /\ providers.hasUS
    THEN IF providers.hasFlatrate
         THEN <<<<"S", "t", "r", "e", "a", "m", "i", "n", "g", " ", "o", "n", ":">>>> \o providers.flatrate
         ELSE <<>>
    ELSE <<>>

RECURSIVE joinLines(_)
joinLines(lines) ==
    IF lines = <<>> THEN <<>>
    ELSE Head(lines) \o <<"\n">> \o joinLines(Tail(lines))

\* `${title} (${year})\n\n${watch}`
bodyText(title, year, providers) ==
    titleText(title, year) \o <<"\n", "\n">> \o joinLines(watchText(providers))

\* The class [-[\]{}()*+!?.,\\^$|#\s] of the regular expression.
ReservedChars ==
    {"-", "[", "]", "{", "}", "(", ")", "*", "+", "!", "?", ".", ",", "\\", "^",
     "$", "|", "#"}
WhiteSpace == {" ", "\n", "\t", "\r"}
Matches(c) == c \in ReservedChars \cup WhiteSpace

\* Mutant: the regular expression has no g flag.
RECURSIVE escapeRegExp_firstOnly(_)
escapeRegExp_firstOnly(text) ==
    IF text = <<>> THEN <<>>
    ELSE IF Matches(Head(text)) THEN <<"\\", Head(text)>> \o Tail(text)
    ELSE <<Head(text)>> \o escapeRegExp_firstOnly(Tail(text))

\* text.replace(/[...]/g, '\\$&')
RECURSIVE escapeRegExp(_)
escapeRegExp(text) ==
    IF text = <<>> THEN <<>>
    ELSE (IF Matches(Head(text)) THEN <<"\\", Head(text)>> ELSE <<Head(text)>>)
         \o escapeRegExp(Tail(text))

\* The inlineResult object built by the map callback for one raw result.
inlineResult(result, type, providers, tz) ==
    LET title == titleOf(result, type)
        year == yearOf(dateOf(result, type), tz)
    IN [id |-> result.id,
        title |-> titleText(title, year),
        message_text |-> escapeRegExp(bodyText(title, year, providers))]

NoResult == [id |-> 0, title |-> <<>>, message_text |-> <<>>]

\* Mutant: the slice is missing.
considered_noSlice(results, type) ==
    SelectSeq(results, LAMBDA r : r.key = KeyOf(type))

\* results.slice(0, 10).filter(...): the raw results the map callback runs on.
considered(results, type) ==
    SelectSeq(SubSeq(results, 1, Min(SLICE_END, Len(results))),
              LAMBDA r : r.key = KeyOf(type))

\* --------------------------------------------------------------- promises
Pending == [st |-> "pending", val |-> NoResult]
Rejected == [st |-> "rejected", val |-> NoResult]   \* the fetch rejected
Threw == [st |-> "threw", val |-> NoResult]         \* the callback threw
Fulfilled(v) == [st |-> "ok", val |-> v]

\* The promise of one map callback once its watch-provider fetch has settled.
callbackOutcome(result, type, out, tz) ==
    IF out.settled = "rejected" THEN Rejected
    ELSE IF out.value.isNull THEN Threw     \* const { results } = null
    ELSE Fulfilled(inlineResult(result, type, out.value, tz))

\* Mutant: the outcomes are collected in the order the fetches settle.
settleAt_completionOrder(arr, k, outcome) ==
    LET first == CHOOSE j \in 1..Len(arr) :
                    /\ arr[j].st = "pending"
                    /\ \A i \in 1..(j - 1) : arr[i].st # "pending"
    IN [arr EXCEPT ![first] = outcome]

\* The array of promises keeps each callback's promise at its input index.
settleAt(arr, k, outcome) == [arr EXCEPT ![k] = outcome]

Vals(arr) == [k \in 1..Len(arr) |-> arr[k].val]

Oks(arr) == Vals(SelectSeq(arr, LAMBDA p : p.st = "ok"))

\* Mutant: fulfilled as soon as one callback is (Promise.any).
PromiseAll_any(arr) ==
    IF \E k \in 1..Len(arr) : arr[k].st = "ok"
    THEN [st |-> "fulfilled", list |-> Oks(arr)]
    ELSE IF \E k \in 1..Len(arr) : arr[k].st = "pending"
         THEN [st |-> "pending", list |-> <<>>]
         ELSE [st |-> "rejected", list |-> <<>>]

\* Mutant: waits for all and drops the failed callbacks (Promise.allSettled).
PromiseAll_allSettled(arr) ==
    IF \E k \in 1..Len(arr) : arr[k].st = "pending"
    THEN [st |-> "pending", list |-> <<>>]
    ELSE [st |-> "fulfilled", list |-> Oks(arr)]

\* Promise.all over the array of callback promises.
PromiseAll(arr) ==
    IF \E k \in 1..Len(arr) : arr[k].st \in {"rejected", "threw"}
    THEN [st |-> "rejected", list |-> <<>>]
    ELSE IF \A k \in 1..Len(arr) : arr[k].st = "ok"
         THEN [st |-> "fulfilled", list |-> Vals(arr)]
         ELSE [st |-> "pending", list |-> <<>>]

Undefined == [st |-> "undefined", list |-> <<>>]
List(l) == [st |-> "list", list |-> l]
NotYet == [st |-> "none", list |-> <<>>]

\* Mutant: the guard is results.length >= 0.
shouldAnswer_always(results) == Len(results) >= 0

\* if (results.length > 0)
shouldAnswer(results) == Len(results) > 0

\* --------------------------------------------------- provider catalog cache
\* Body of a /watch/providers/{type} response, or the JSON value null.
Catalog(version) == [isNull |-> FALSE, version |-> version]
NullCatalog == [isNull |-> TRUE, version |-> 0]

CatalogResponses ==
    { HttpResponse(FALSE, sc, TRUE, Catalog(v)) : sc \in StatusCodes, v \in {1, 2} }
    \cup { HttpResponse(FALSE, 200, TRUE, NullCatalog),
           HttpResponse(FALSE, 200, FALSE, NullCatalog),
           HttpResponse(TRUE, 0, FALSE, NullCatalog) }

NoEntry == [has |-> FALSE, value |-> NullCatalog]
Entry(v) == [has |-> TRUE, value |-> v]
\* A call of getWatchProviders; `afterReject` records that an earlier call for
\* the same media type had been rejected when this one started.
IdleCall ==
    [pc |-> "idle", type |-> "movie", fetched |-> FALSE, afterReject |-> FALSE,
     value |-> NullCatalog]
CallIds == 1..MaxCalls
RejectedFor(type) == \E b \in CallIds : calls[b].pc = "rejected" /\ calls[b].type = type

\* ------------------------------------------------- interactive search flow
\* The value of handleUserInput / of `choice` while nothing was returned.
NoChoice == <<"undefined">>

\* What the operator may type at a prompt.
Inputs ==
    { toString(k) : k \in 0..(MaxShown + 2) }
    \cup { <<>>, <<"x">>, <<"0", "1">>, <<" ", "1">>, <<"1", " ">> }

Queries == {"terminator", "pantheon"}

\* Array.prototype.includes
includes(arr, x) == \E i \in 1..Len(arr) : arr[i] = x

\* Mutant: an invalid response is returned instead of asking again.
handleUserInput_acceptAll(validResponses, response) ==
    [again |-> FALSE, value |-> response]

\* handleUserInput once the operator has typed `response`: ask again with the
\* same validResponses, or return the response.
handleUserInput(validResponses, response) ==
    IF ~includes(validResponses, response)
    THEN [again |-> TRUE, value |-> NoChoice]
    ELSE [again |-> FALSE, value |-> response]

\* Mutant: a page that lists nothing still offers an option 0.
validChoices_orZero(results, showMoreResults) ==
    IF results = <<>> /\ ~showMoreResults
    THEN <<toString(0)>>
    ELSE [k \in 1..Len(results) |-> toString(k)]
         \o (IF showMoreResults THEN <<toString(Len(results) + 1)>> ELSE <<>>)

\* getAnswerFromUser: the validChoices array handed to handleUserInput.
validChoices(results, showMoreResults) ==
    [k \in 1..Len(results) |-> toString(k)]
    \o (IF showMoreResults THEN <<toString(Len(results) + 1)>> ELSE <<>>)

\* getAnswerFromUser: the numbered lines written to stdout.
menu(results, showMoreResults) ==
    [k \in 1..Len(results) |-> [opt |-> toString(k), more |-> FALSE]]
    \o (IF showMoreResults
        THEN <<[opt |-> toString(Len(results) + 1), more |-> TRUE]>>
        ELSE <<>>)

\* Mutant: every option number maps to the first result.
resultsMapGet_first(results, choice) ==
    IF \E k \in 1..Len(results) : toString(k) = choice
    THEN [defined |-> TRUE, id |-> results[1].id]
    ELSE [defined |-> FALSE, id |-> 0]

\* resultsMap.get(choice)
resultsMapGet(results, choice) ==
    IF \E k \in 1..Len(results) : toString(k) = choice
    THEN [defined |-> TRUE,
          id |-> results[CHOOSE k \in 1..Len(results) : toString(k) = choice].id]
    ELSE [defined |-> FALSE, id |-> 0]

\* Mutant: the last page offers the option too.
showMore_inclusive(currentPage, total_pages) == currentPage <= total_pages

\* const showMoreResults = currentPage < total_pages
showMore(currentPage, total_pages) == currentPage < total_pages

DetailsResponses ==
    { HttpResponse(FALSE, 200, TRUE, "details"), HttpResponse(FALSE, 404, TRUE, "error"),
      HttpResponse(FALSE, 200, FALSE, "text"), HttpResponse(TRUE, 0, FALSE, "none") }

\* userSearch(query, type, 1) up to the await of the search fetch.
CliStart(query, type) ==
    [pc |-> "search", query |-> query, type |-> type, page |-> 1,
     results |-> <<>>, total_pages |-> 0, showMoreResults |-> FALSE,
     validResponses |-> <<>>, menu |-> <<>>, prompts |-> 0,
     response |-> NoChoice, choice |-> NoChoice,
     searchLog |-> <<[query |-> query, type |-> type, page |-> 1]>>,
     detailsLog |-> <<>>]

CliOff == [CliStart("terminator", "movie") EXCEPT !.pc = "off", !.searchLog = <<>>]

\* ------------------------------------------------------------------- Init
EmptyPerType(v) == [q \in QueryIds |-> [t \in Media |-> v]]

InlineInit(e) ==
    /\ env = e
    /\ pc = [q \in QueryIds |-> "idle"]
    /\ arrived = <<>>
    /\ search = EmptyPerType("none")
    /\ bodyKind = EmptyPerType("none")
    /\ raw = EmptyPerType(<<>>)
    /\ provFetch = EmptyPerType(<<>>)
    /\ slots = EmptyPerType(<<>>)
    /\ mapped = EmptyPerType(NotYet)
    /\ answers = <<>>
    /\ overtook = [q \in QueryIds |-> FALSE]

\* const WATCH_PROVIDERS = new Map()
CacheInit ==
    /\ WATCH_PROVIDERS = [t \in Media |-> NoEntry]
    /\ calls = [c \in CallIds |-> IdleCall]
    /\ catalogFetches = [t \in Media |-> 0]

\* The input of one run of the map callback: a raw result of the searched
\* type, the watch-providers body fetched for it and the local time zone.
FmtInput(result, type, providers, tz) ==
    [pc |-> "input", result |-> result, type |-> type, providers |-> providers,
     tz |-> tz, year |-> Absent, body |-> <<>>, out |-> NoResult]
FmtOff == [FmtInput(RawResult(0, "title", <<>>, Absent), "movie",
                    NullProviderBody, 0) EXCEPT !.pc = "off"]

\* The characters of the texts handed to escapeRegExp.
EscChars == ReservedChars \cup WhiteSpace \cup {"a", "_"}
RECURSIVE Texts(_)
Texts(n) ==
    IF n = 0 THEN { <<>> }
    ELSE Texts(n - 1) \cup { Append(t, c) : t \in Texts(n - 1), c \in EscChars }

EscInput(text) == [pc |-> "input", text |-> text, out |-> <<>>]
EscOff == [EscInput(<<>>) EXCEPT !.pc = "off"]

\* One call of fetch: the https.get request is sent. `error` tells whether
\* and when the request emits 'error': never, before the response, or while
\* the body is read.
ReqSent(error, statusCode, valid, json) ==
    [pc |-> "sent", error |-> error, statusCode |-> statusCode, valid |-> valid,
     json |-> json, requests |-> 1, settles |-> <<>>]
ReqOff == [ReqSent("none", 200, TRUE, "none") EXCEPT !.pc = "off", !.requests = 0]

AllStatusCodes == {100, 199, 200, 204, 299, 300, 404, 500}

PureOff == fmt = FmtOff /\ esc = EscOff /\ req = ReqOff

OneBody == { ProviderBody(TRUE, TRUE, TRUE, <<Netflix>>) }
TwoBodies == { ProviderBody(TRUE, TRUE, FALSE, <<>>),
               ProviderBody(TRUE, TRUE, TRUE, <<Netflix, Hulu>>) }

\* Result lists longer than the slice limit: every result of the searched
\* variant, or every second one only.
LongLists(type) ==
    { [k \in 1..n |-> RawResult(IdAt(type, k),
                                IF k % 2 = 0 /\ mixed
                                THEN KeyOf(CHOOSE o \in Media : o # type)
                                ELSE KeyOf(type),
                                TitleAt(k), DateAt(k))] :
      n \in (SLICE_END + 1)..(SLICE_END + MaxOver), mixed \in BOOLEAN }

NoEnv == [queries |-> {}, lists |-> [t \in Media |-> {}], providers |-> {}, tz |-> 0]

\* Two inline queries in flight together.
InitRace ==
    /\ InlineInit([queries |-> {1, 2},
                   lists |-> [t \in Media |-> RawLists(t, 0..MaxRace, {KeyOf(t)})],
                   providers |-> ProviderResponses(OneBody, FALSE),
                   tz |-> 0])
    /\ CacheInit
    /\ cli = CliOff
    /\ PureOff

\* One inline query whose searches return more results than the slice keeps;
\* every watch-provider fetch of the run resolves.
InitCap ==
    /\ InlineInit([queries |-> {1},
                   lists |-> [t \in Media |-> LongLists(t)],
                   providers |-> { HttpResponse(FALSE, 200, TRUE, b) : b \in OneBody },
                   tz |-> 0])
    /\ CacheInit
    /\ cli = CliOff
    /\ PureOff

\* The bot with no inline query yet; getWatchProviders is about to be called.
InitCache ==
    /\ InlineInit(NoEnv)
    /\ CacheInit
    /\ cli = CliOff
    /\ PureOff

\* The command-line flow: userSearch(query, type, 1) has been called.
InitCli ==
    /\ InlineInit(NoEnv)
    /\ CacheInit
    /\ \E query \in Queries, type \in Media : cli = CliStart(query, type)
    /\ PureOff

\* The map callback alone, on every title, date, provider body and time zone.
InitFormat ==
    /\ InlineInit(NoEnv)
    /\ CacheInit
    /\ cli = CliOff
    /\ esc = EscOff /\ req = ReqOff
    /\ \E type \in Media, title \in Titles, date \in Dates,
          providers \in AllProviderBodies, tz \in TimeZones :
         fmt = FmtInput(RawResult(IdAt(type, 1), KeyOf(type), title, date),
                        type, providers, tz)

\* escapeRegExp alone, on every short text.
InitEscape ==
    /\ InlineInit(NoEnv)
    /\ CacheInit
    /\ cli = CliOff
    /\ fmt = FmtOff /\ req = ReqOff
    /\ \E text \in Texts(MaxText) : esc = EscInput(text)

\* fetch alone: one request, every status code, body and error.
InitFetch ==
    /\ InlineInit(NoEnv)
    /\ CacheInit
    /\ cli = CliOff
    /\ fmt = FmtOff /\ esc = EscOff
    /\ \E error \in {"none", "connect", "body"}, statusCode \in AllStatusCodes,
          valid \in BOOLEAN, json \in {"object", "null"} :
         req = ReqSent(error, statusCode, valid, json)

\* One inline query; every short result list, two provider bodies.
Init ==
    /\ InlineInit([queries |-> {1},
                   lists |-> [t \in Media |-> RawLists(t, 0..MaxResults, {"title", "name"})],
                   providers |-> ProviderResponses(TwoBodies, TRUE),
                   tz |-> 0])
    /\ CacheInit
    /\ cli = CliOff
    /\ PureOff

\* ---------------------------------------------------------------- actions
\* An uncaught rejection ends the handler: nothing catches it (no try/catch
\* in getInlineResultsMap, getInlineResults or the listener).
Throw(q) ==
    /\ pc' = [pc EXCEPT ![q] = "failed"]
    /\ UNCHANGED answers

\* The listener after `await getInlineResults(query)` yields inlineResults.
Answer(q, inlineResults) ==
    IF shouldAnswer(inlineResults)
    THEN /\ answers' = Append(answers, [id |-> q, results |-> inlineResults])
         /\ pc' = [pc EXCEPT ![q] = "answered"]
    ELSE /\ pc' = [pc EXCEPT ![q] = "silent"]
         /\ UNCHANGED answers

\* Mutant: an undefined list is merged as an empty one.
Return_tolerant(q, type, m, s) ==
    /\ mapped' = [mapped EXCEPT ![q][type] = m]
    /\ IF type = "movie"
       THEN /\ pc' = [pc EXCEPT ![q] = "tv"]
            /\ search' = [s EXCEPT ![q]["tv"] = "inflight"]
            /\ UNCHANGED answers
       ELSE /\ search' = s
            /\ Answer(q, mapped[q]["movie"].list \o m.list)

\* getInlineResults after `await getInlineResultsMap(query, type)` yields m;
\* s is the state of the search fetches at that moment.
Return(q, type, m, s) ==
    /\ mapped' = [mapped EXCEPT ![q][type] = m]
    /\ IF type = "movie"
       THEN \* const tv = await getInlineResultsMap(query, 'tv')
            /\ pc' = [pc EXCEPT ![q] = "tv"]
            /\ search' = [s EXCEPT ![q]["tv"] = "inflight"]
            /\ UNCHANGED answers
       ELSE \* [...movies, ...tv] throws when either is undefined
            /\ search' = s
            /\ IF mapped[q]["movie"].st = "undefined" \/ m.st = "undefined"
               THEN Throw(q)
               ELSE Answer(q, mapped[q]["movie"].list \o m.list)

\* Mutant: a new inline query cancels the handlers still running.
InlineQuery_supersede(q) ==
    /\ q \in env.queries
    /\ pc[q] = "idle"
    /\ pc' = [p \in QueryIds |-> IF p = q THEN "movie"
                                 ELSE IF pc[p] \in {"movie", "tv"} THEN "failed"
                                 ELSE pc[p]]
    /\ arrived' = Append(arrived, q)
    /\ search' = [search EXCEPT ![q]["movie"] = "inflight"]
    /\ UNCHANGED <<env, bodyKind, raw, provFetch, slots, mapped, answers, overtook, cacheVars, cli, pureVars>>

\* Mutant: both searches are started together (Promise.all of the two maps).
InlineQuery_concurrent(q) ==
    /\ q \in env.queries
    /\ pc[q] = "idle"
    /\ pc' = [pc EXCEPT ![q] = "movie"]
    /\ arrived' = Append(arrived, q)
    /\ search' = [search EXCEPT ![q]["movie"] = "inflight", ![q]["tv"] = "inflight"]
    /\ UNCHANGED <<env, bodyKind, raw, provFetch, slots, mapped, answers, overtook, cacheVars, cli, pureVars>>

\* bot.on('inline_query'): the listener runs up to the movie search's await.
InlineQuery(q) ==
    /\ q \in env.queries
    /\ pc[q] = "idle"
    /\ pc' = [pc EXCEPT ![q] = "movie"]
    /\ arrived' = Append(arrived, q)
    /\ search' = [search EXCEPT ![q]["movie"] = "inflight"]
    /\ UNCHANGED <<env, bodyKind, raw, provFetch, slots, mapped, answers, overtook, cacheVars, cli, pureVars>>

\* The search fetch settles and getInlineResultsMap runs up to Promise.all.
SearchSettle(q, type) ==
    /\ pc[q] = type
    /\ search[q][type] = "inflight"
    /\ \E res \in SearchResponses(env.lists[type]) :
         LET out == fetch(res)
             resolved == [search EXCEPT ![q][type] = "resolved"]
         IN
         IF out.settled = "rejected"
         THEN /\ search' = [search EXCEPT ![q][type] = "rejected"]
              /\ Throw(q)
              /\ UNCHANGED <<bodyKind, raw, provFetch, slots, mapped>>
         ELSE IF out.value.isNull
         THEN \* const { results } = search
              /\ search' = resolved
              /\ bodyKind' = [bodyKind EXCEPT ![q][type] = "null"]
              /\ Throw(q)
              /\ UNCHANGED <<raw, provFetch, slots, mapped>>
         ELSE IF ~out.value.hasResults
         THEN \* if (!results) return
              /\ bodyKind' = [bodyKind EXCEPT ![q][type] = "noResults"]
              /\ Return(q, type, Undefined, resolved)
              /\ UNCHANGED <<raw, provFetch, slots>>
         ELSE LET cands == considered(out.value.results, type) IN
              /\ bodyKind' = [bodyKind EXCEPT ![q][type] = "results"]
              /\ raw' = [raw EXCEPT ![q][type] = out.value.results]
              /\ provFetch' = [provFetch EXCEPT ![q][type] =
                                  [k \in 1..Len(cands) |-> cands[k].id]]
              /\ slots' = [slots EXCEPT ![q][type] = [k \in 1..Len(cands) |-> Pending]]
              /\ IF cands = <<>>
                 THEN \* Promise.all([]) is fulfilled with []
                      Return(q, type, List(<<>>), resolved)
                 ELSE /\ search' = resolved
                      /\ UNCHANGED <<pc, mapped, answers>>
    /\ UNCHANGED <<env, arrived, overtook, cacheVars, cli, pureVars>>

\* The watch-provider fetch of candidate k settles; its callback finishes and
\* Promise.all, when it settles with it, resumes the handler.
ProviderSettle(q, type, k) ==
    /\ k \in 1..Len(slots[q][type])
    /\ slots[q][type][k].st = "pending"
    /\ \E res \in env.providers :
         LET cands == considered(raw[q][type], type)
             arr == settleAt(slots[q][type], k, callbackOutcome(cands[k], type, fetch(res), env.tz))
             all == PromiseAll(arr)
         IN
         /\ slots' = [slots EXCEPT ![q][type] = arr]
         /\ IF pc[q] = type /\ all.st = "rejected"
            THEN Throw(q) /\ UNCHANGED <<search, mapped>>
            ELSE IF pc[q] = type /\ all.st = "fulfilled"
            THEN Return(q, type, List(all.list), search)
            ELSE UNCHANGED <<pc, search, mapped, answers>>
    /\ overtook' = [overtook EXCEPT ![q] =
                        @ \/ \E j \in 1..(k - 1) : slots[q][type][j].st = "pending"]
    /\ UNCHANGED <<env, arrived, bodyKind, raw, provFetch, cacheVars, cli, pureVars>>

\* Mutant: the call fetches whether or not the Map has the type.
getWatchProviders_alwaysFetch(c, type) ==
    /\ calls[c].pc = "idle"
    /\ \A b \in CallIds : b < c => calls[b].pc # "idle"
    /\ calls' = [calls EXCEPT ![c] = [@ EXCEPT !.pc = "fetching", !.type = type,
                                                !.afterReject = RejectedFor(type),
                                                !.fetched = TRUE]]
    /\ catalogFetches' = [catalogFetches EXCEPT ![type] = @ + 1]
    /\ UNCHANGED <<WATCH_PROVIDERS, inlineVars, cli, pureVars>>

\* getWatchProviders(type), call number c, up to its await or its return.
getWatchProviders(c, type) ==
    /\ calls[c].pc = "idle"
    /\ \A b \in CallIds : b < c => calls[b].pc # "idle"
    /\ IF ~WATCH_PROVIDERS[type].has
       THEN /\ calls' = [calls EXCEPT ![c] = [@ EXCEPT !.pc = "fetching", !.type = type,
                                                       !.afterReject = RejectedFor(type),
                                                       !.fetched = TRUE]]
            /\ catalogFetches' = [catalogFetches EXCEPT ![type] = @ + 1]
       ELSE /\ calls' = [calls EXCEPT ![c] = [@ EXCEPT !.pc = "returned", !.type = type,
                                                       !.afterReject = RejectedFor(type),
                                                       !.value = WATCH_PROVIDERS[type].value]]
            /\ UNCHANGED catalogFetches
    /\ UNCHANGED <<WATCH_PROVIDERS, inlineVars, cli, pureVars>>

\* Mutant: a rejected catalog fetch leaves an entry behind.
CatalogSettle_storeOnReject(c) ==
    /\ calls[c].pc = "fetching"
    /\ \E res \in CatalogResponses :
         LET out == fetch(res) IN
         IF out.settled = "rejected"
         THEN /\ calls' = [calls EXCEPT ![c].pc = "rejected"]
              /\ WATCH_PROVIDERS' = [WATCH_PROVIDERS EXCEPT ![calls[c].type] = Entry(NullCatalog)]
         ELSE /\ WATCH_PROVIDERS' = [WATCH_PROVIDERS EXCEPT ![calls[c].type] = Entry(out.value)]
              /\ calls' = [calls EXCEPT ![c] = [@ EXCEPT !.pc = "returned",
                                                          !.value = out.value]]
    /\ UNCHANGED <<catalogFetches, inlineVars, cli, pureVars>>

\* The catalog fetch of call c settles: WATCH_PROVIDERS.set(type, <value>)
\* and the return of WATCH_PROVIDERS.get(type), or the rejection of the call.
CatalogSettle(c) ==
    /\ calls[c].pc = "fetching"
    /\ \E res \in CatalogResponses :
         LET out == fetch(res) IN
         IF out.settled = "rejected"
         THEN /\ calls' = [calls EXCEPT ![c].pc = "rejected"]
              /\ UNCHANGED WATCH_PROVIDERS
         ELSE /\ WATCH_PROVIDERS' = [WATCH_PROVIDERS EXCEPT ![calls[c].type] = Entry(out.value)]
              /\ calls' = [calls EXCEPT ![c] = [@ EXCEPT !.pc = "returned",
                                                          !.value = out.value]]
    /\ UNCHANGED <<catalogFetches, inlineVars, cli, pureVars>>

\* The search fetch of userSearch settles; getAnswerFromUser lists the page
\* and handleUserInput asks for the first time.
CliSearchSettle ==
    /\ cli.pc = "search"
    /\ \E res \in SearchResponses(RawLists(cli.type, 0..MaxShown, {KeyOf(cli.type)})) :
         LET out == fetch(res) IN
         IF out.settled = "rejected"
         THEN cli' = [cli EXCEPT !.pc = "failed"]
         ELSE IF out.value.isNull
         THEN \* if (search) is false: userSearch resolves with undefined
              cli' = [cli EXCEPT !.pc = "end"]
         ELSE IF ~out.value.hasResults
         THEN \* results.forEach on undefined
              cli' = [cli EXCEPT !.pc = "failed"]
         ELSE LET more == showMore(cli.page, out.value.total_pages) IN
              cli' = [cli EXCEPT !.pc = "prompt",
                                 !.results = out.value.results,
                                 !.total_pages = out.value.total_pages,
                                 !.showMoreResults = more,
                                 !.validResponses = validChoices(out.value.results, more),
                                 !.menu = menu(out.value.results, more),
                                 !.prompts = 1,
                                 !.response = NoChoice,
                                 !.choice = NoChoice]
    /\ UNCHANGED <<inlineVars, cacheVars, pureVars>>

\* The operator answers the prompt; handleUserInput asks again or returns,
\* and on a return getAnswerFromUser and userSearch run up to their next await.
UserInput ==
    /\ cli.pc = "prompt"
    /\ \E resp \in Inputs :
         LET h == handleUserInput(cli.validResponses, resp) IN
         IF h.again
         THEN /\ cli.prompts < MaxPrompts
              /\ cli' = [cli EXCEPT !.prompts = @ + 1, !.response = resp]
         ELSE LET result == resultsMapGet(cli.results, h.value) IN
              IF result.defined /\ result.id # 0
              THEN \* return getMediaById(id, type)
                   cli' = [cli EXCEPT !.pc = "details", !.response = resp,
                                      !.choice = h.value,
                                      !.detailsLog = Append(@, [id |-> result.id,
                                                                type |-> cli.type])]
              ELSE IF cli.showMoreResults /\ cli.page < cli.total_pages
              THEN \* return userSearch(query, type, currentPage + 1)
                   cli' = [cli EXCEPT !.pc = "search", !.response = resp,
                                      !.choice = h.value,
                                      !.page = @ + 1,
                                      !.searchLog = Append(@, [query |-> cli.query,
                                                               type |-> cli.type,
                                                               page |-> cli.page + 1])]
              ELSE cli' = [cli EXCEPT !.pc = "end", !.response = resp, !.choice = h.value]
    /\ UNCHANGED <<inlineVars, cacheVars, pureVars>>

\* The details fetch of getMediaById settles.
DetailsSettle ==
    /\ cli.pc = "details"
    /\ \E res \in DetailsResponses :
         cli' = [cli EXCEPT !.pc = IF fetch(res).settled = "rejected"
                                   THEN "failed" ELSE "done"]
    /\ UNCHANGED <<inlineVars, cacheVars, pureVars>>

\* The map callback from `const { poster_path, id } = result` to its return,
\* given the body its watch-provider fetch resolved with.
Format ==
    /\ fmt.pc = "input"
    /\ LET title == titleOf(fmt.result, fmt.type)
           year == yearOf(dateOf(fmt.result, fmt.type), fmt.tz)
       IN fmt' = [fmt EXCEPT !.pc = "done",
                             !.year = year,
                             !.body = bodyText(title, year, fmt.providers),
                             !.out = inlineResult(fmt.result, fmt.type,
                                                  fmt.providers, fmt.tz)]
    /\ UNCHANGED <<inlineVars, cacheVars, cli, esc, req>>

\* One call of escapeRegExp.
Escape ==
    /\ esc.pc = "input"
    /\ esc' = [esc EXCEPT !.pc = "done", !.out = escapeRegExp(esc.text)]
    /\ UNCHANGED <<inlineVars, cacheVars, cli, fmt, req>>

\* A call of resolve or reject; all that fetch's promise sees of the request.
Settle(error) ==
    Append(req.settles, fetch(HttpResponse(error, req.statusCode, req.valid, req.json)))

\* The callback of https.get: the response's status line has arrived.
ResponseCallback ==
    /\ req.pc = "sent"
    /\ req.error # "connect"
    /\ IF statusOk(req.statusCode)
       THEN req' = [req EXCEPT !.pc = "body"]
       ELSE req' = [req EXCEPT !.pc = "closed", !.settles = Settle(FALSE)]
    /\ UNCHANGED <<inlineVars, cacheVars, cli, fmt, esc>>

\* res.on('end'): the body is complete and is parsed.
ResponseEnd ==
    /\ req.pc = "body"
    /\ req.error = "none"
    /\ req' = [req EXCEPT !.pc = "closed", !.settles = Settle(FALSE)]
    /\ UNCHANGED <<inlineVars, cacheVars, cli, fmt, esc>>

\* request.on('error', reject)
RequestError ==
    /\ \/ req.pc = "sent" /\ req.error = "connect"
       \/ req.pc = "body" /\ req.error = "body"
    /\ req' = [req EXCEPT !.pc = "closed", !.settles = Settle(TRUE)]
    /\ UNCHANGED <<inlineVars, cacheVars, cli, fmt, esc>>

Next ==
    \/ \E q \in QueryIds : InlineQuery(q)
    \/ \E q \in QueryIds, type \in Media : SearchSettle(q, type)
    \/ \E q \in QueryIds, type \in Media, k \in 1..SLICE_END : ProviderSettle(q, type, k)

Spec == Init /\ [][Next]_vars
RaceSpec == InitRace /\ [][Next]_vars
CapSpec == InitCap /\ [][Next]_vars

NextCache ==
    \/ \E c \in CallIds, type \in Media : getWatchProviders(c, type)
    \/ \E c \in CallIds : CatalogSettle(c)

CacheSpec == InitCache /\ [][NextCache]_vars

NextCli ==
    \/ CliSearchSettle
    \/ UserInput
    \/ DetailsSettle

CliSpec == InitCli /\ [][NextCli]_vars

NextFormat == Format

FormatSpec == InitFormat /\ [][NextFormat]_vars

NextEscape == Escape

NextFetch ==
    \/ ResponseCallback
    \/ ResponseEnd
    \/ RequestError

FetchSpec == InitFetch /\ [][NextFetch]_vars

EscapeSpec == InitEscape /\ [][NextEscape]_vars

\* ======================================================== inline queries
AnswersFor(q) == { i \in 1..Len(answers) : answers[i].id = q }
Ids(list) == [k \in 1..Len(list) |-> list[k].id]
IdSet(list) == { list[k].id : k \in 1..Len(list) }
PosIn(list, id) == CHOOSE k \in 1..Len(list) : list[k].id = id
SlotsOf(q) == slots[q]["movie"] \o slots[q]["tv"]

\* C1: in every list passed to answerInlineQuery each entry comes from the
\* movie or the TV search response of that query, no movie entry follows a TV
\* entry, and two entries of the same media type stand in the order their raw
\* results have in the upstream response, whatever order the fetches settled in.
C1_OrderPreserved ==
    \A a \in 1..Len(answers) :
        LET q == answers[a].id
            ids == Ids(answers[a].results)
            isOf(t, id) == id \in IdSet(raw[q][t])
        IN
        /\ \A i \in 1..Len(ids) : isOf("movie", ids[i]) \/ isOf("tv", ids[i])
        /\ \A i, j \in 1..Len(ids) :
             i < j =>
               /\ ~(isOf("tv", ids[i]) /\ isOf("movie", ids[j]))
               /\ \A t \in Media :
                    isOf(t, ids[i]) /\ isOf(t, ids[j]) =>
                      PosIn(raw[q][t], ids[i]) < PosIn(raw[q][t], ids[j])

\* C1 witness: a reply with two movie entries and a TV entry was sent although
\* a later watch-provider fetch settled before an earlier one.
C1_Witness ==
    \E a \in 1..Len(answers) :
        /\ overtook[answers[a].id]
        /\ Len(slots[answers[a].id]["movie"]) >= 2
        /\ Len(slots[answers[a].id]["tv"]) >= 1

\* C2: a query whose two searches both returned an empty result list never
\* gets an answerInlineQuery call, and a handler that got a non-empty merged
\* list made exactly one call, with that list.
C2_ReplyIffNonEmpty ==
    \A q \in QueryIds :
        /\ ( /\ search[q]["movie"] = "resolved" /\ mapped[q]["movie"].st = "list"
             /\ search[q]["tv"] = "resolved" /\ mapped[q]["tv"].st = "list"
             /\ raw[q]["movie"] = <<>> /\ raw[q]["tv"] = <<>> )
           => AnswersFor(q) = {}
        /\ ( /\ mapped[q]["movie"].st = "list" /\ mapped[q]["tv"].st = "list"
             /\ mapped[q]["movie"].list \o mapped[q]["tv"].list # <<>> )
           => /\ Cardinality(AnswersFor(q)) = 1
              /\ \A i \in AnswersFor(q) :
                   answers[i].results = mapped[q]["movie"].list \o mapped[q]["tv"].list

\* C2 witness: both searches returned no result and the handler ended silent.
C2_Witness ==
    \E q \in QueryIds :
        /\ pc[q] = "silent"
        /\ search[q]["movie"] = "resolved" /\ search[q]["tv"] = "resolved"
        /\ raw[q]["movie"] = <<>> /\ raw[q]["tv"] = <<>>
        /\ AnswersFor(q) = {}

\* C3: a query gets at most one answerInlineQuery call, and when it got one,
\* both searches have resolved, no watch-provider fetch of the query is
\* pending, and the list has one entry per fetch issued.
C3_JoinedOnce ==
    \A q \in QueryIds :
        /\ Cardinality(AnswersFor(q)) <= 1
        /\ \A i \in AnswersFor(q) :
             /\ search[q]["movie"] = "resolved" /\ search[q]["tv"] = "resolved"
             /\ \A k \in 1..Len(SlotsOf(q)) : SlotsOf(q)[k].st = "ok"
             /\ Len(answers[i].results)
                  = Len(provFetch[q]["movie"]) + Len(provFetch[q]["tv"])

\* C3 witness: a reply was sent for a query with fetches for both media types.
C3_Witness ==
    \E q \in QueryIds :
        /\ AnswersFor(q) # {}
        /\ Len(provFetch[q]["movie"]) >= 2 /\ Len(provFetch[q]["tv"]) >= 1

FetchRejected(q) ==
    \/ \E t \in Media : search[q][t] = "rejected"
    \/ \E k \in 1..Len(SlotsOf(q)) : SlotsOf(q)[k].st = "rejected"

\* C4: a query one of whose fetches (a search or a watch-provider lookup)
\* rejected has no answerInlineQuery call.
C4_RejectionSilences ==
    \A q \in QueryIds : FetchRejected(q) => AnswersFor(q) = {}

\* C4 witness: one watch-provider fetch rejected, every other fetch of the
\* query succeeded, and the handler failed without a reply.
C4_Witness ==
    \E q \in QueryIds :
        /\ pc[q] = "failed"
        /\ search[q]["movie"] = "resolved"
        /\ Len(slots[q]["movie"]) >= 2
        /\ \E k \in 1..Len(slots[q]["movie"]) :
             /\ slots[q]["movie"][k].st = "rejected"
             /\ \A j \in 1..Len(slots[q]["movie"]) :
                  j # k => slots[q]["movie"][j].st = "ok"
        /\ AnswersFor(q) = {}

Running(q) == pc[q] \in {"movie", "tv"}
Awaited(q) ==
    \/ search[q][pc[q]] = "inflight"
    \/ \E k \in 1..Len(slots[q][pc[q]]) : slots[q][pc[q]][k].st = "pending"

\* C5: the arrival of an inline query changes nothing of a handler that is
\* still running, and a running handler always has a fetch in flight that it
\* is waiting for (it is never dropped).
C5_NoSupersede ==
    /\ [](\A q \in QueryIds : Running(q) => Awaited(q))
    /\ [][\A q \in QueryIds :
            (Running(q) /\ Len(arrived') > Len(arrived)) =>
               /\ pc'[q] = pc[q] /\ search'[q] = search[q]
               /\ slots'[q] = slots[q] /\ mapped'[q] = mapped[q]]_vars

\* C5 witness: the reply to the query that arrived first was sent after the
\* reply to the query that arrived second.
C5_Witness ==
    /\ Len(arrived) = 2 /\ Len(answers) = 2
    /\ answers[1].id = arrived[2] /\ answers[2].id = arrived[1]

\* C6 as stated: the TV search is issued together with the movie search, so
\* whenever the movie search has been issued the TV search has been too.
C6_Original ==
    \A q \in QueryIds : search[q]["movie"] # "none" => search[q]["tv"] # "none"

MovieDone(q) ==
    /\ search[q]["movie"] = "resolved"
    /\ mapped[q]["movie"].st # "none"
    /\ \A k \in 1..Len(slots[q]["movie"]) : slots[q]["movie"][k].st = "ok"

\* C6 amended: the TV search is issued only after the movie search has
\* resolved and every watch-provider fetch of the movie candidates has too.
C6_Sequential ==
    \A q \in QueryIds : search[q]["tv"] # "none" => MovieDone(q)

\* C6 witness: the TV search is in flight after two movie candidates' fetches.
C6_Witness ==
    \E q \in QueryIds :
        /\ search[q]["tv"] = "inflight"
        /\ Len(slots[q]["movie"]) >= 2

\* C7: per media type at most ten watch-provider fetches are issued, exactly
\* one for each of the first ten raw results that carries the variant's key,
\* and a list passed to answerInlineQuery has at most twenty entries.
C7_Capped ==
    /\ \A q \in QueryIds, t \in Media :
         LET kept == { k \in 1..Len(raw[q][t]) : k <= 10 /\ raw[q][t][k].key = KeyOf(t) } IN
         /\ Len(provFetch[q][t]) <= 10
         /\ Len(provFetch[q][t]) = Cardinality(kept)
         /\ { provFetch[q][t][i] : i \in 1..Len(provFetch[q][t]) }
              = { raw[q][t][k].id : k \in kept }
         /\ Len(slots[q][t]) = Len(provFetch[q][t])
    /\ \A a \in 1..Len(answers) : Len(answers[a].results) <= 20

\* C7 witness: both searches returned more than ten results and the reply has
\* twenty entries.
C7_Witness ==
    \E a \in 1..Len(answers) :
        /\ Len(raw[answers[a].id]["movie"]) > 10
        /\ Len(raw[answers[a].id]["tv"]) > 10
        /\ Len(answers[a].results) = 20

\* ============================================================ catalog cache
\* C8 as stated: at most one catalog fetch is ever issued per media type, and
\* an entry of WATCH_PROVIDERS, once stored, is neither replaced nor removed.
C8_Original ==
    /\ [](\A t \in Media : catalogFetches[t] <= 1)
    /\ [][\A t \in Media :
            WATCH_PROVIDERS[t].has => WATCH_PROVIDERS'[t] = WATCH_PROVIDERS[t]]_vars

\* C8 amended: a catalog fetch for a media type is issued only while
\* WATCH_PROVIDERS has no entry for it (so a call that starts once the entry is
\* stored issues none), and a stored entry is never removed.
C8_FetchOnlyWhileAbsent ==
    [][\A t \in Media :
         /\ catalogFetches'[t] > catalogFetches[t] => ~WATCH_PROVIDERS[t].has
         /\ WATCH_PROVIDERS[t].has => WATCH_PROVIDERS'[t].has]_vars

\* C8 witness: a call returned the stored catalog without a fetch of its
\* own, after exactly one fetch for its media type.
C8_Witness ==
    \E c \in CallIds :
        /\ calls[c].pc = "returned" /\ ~calls[c].fetched
        /\ catalogFetches[calls[c].type] = 1
        /\ calls[c].value = WATCH_PROVIDERS[calls[c].type].value

\* C18: when the catalog fetch of a call rejects, the call rejects and
\* WATCH_PROVIDERS is left as it was; a call that starts while its media type
\* has no entry issues a catalog fetch, also after an earlier call for the type
\* was rejected; and an entry appears only in the step in which a catalog
\* fetch for its type resolved, holding the resolved value.
C18_RejectStoresNothing ==
    /\ [][\A c \in CallIds :
            /\ (calls[c].pc = "fetching" /\ calls'[c].pc = "rejected")
                 => WATCH_PROVIDERS' = WATCH_PROVIDERS
            /\ (calls[c].pc = "idle" /\ calls'[c].pc # "idle"
                  /\ ~WATCH_PROVIDERS[calls'[c].type].has)
                 => /\ calls'[c].pc = "fetching"
                    /\ catalogFetches'[calls'[c].type] = catalogFetches[calls'[c].type] + 1]_vars
    /\ [][\A t \in Media :
            (~WATCH_PROVIDERS[t].has /\ WATCH_PROVIDERS'[t].has)
              => \E c \in CallIds :
                   /\ calls[c].pc = "fetching" /\ calls[c].type = t
                   /\ calls'[c].pc = "returned"
                   /\ calls'[c].value = WATCH_PROVIDERS'[t].value]_vars
    /\ [](\A t \in Media :
            WATCH_PROVIDERS[t].has
              => \E c \in CallIds :
                   calls[c].type = t /\ calls[c].fetched /\ calls[c].pc = "returned")

\* C18 witness: a call was rejected and stored nothing, and a later call for
\* the same media type issued the second catalog fetch, whose value is stored.
C18_Witness ==
    \E c \in CallIds :
        /\ calls[c].afterReject /\ calls[c].fetched
        /\ calls[c].pc = "returned"
        /\ catalogFetches[calls[c].type] = 2
        /\ WATCH_PROVIDERS[calls[c].type] = Entry(calls[c].value)

\* ================================================== interactive search flow
ShowMoreOpt == toString(Len(cli.results) + 1)
\* A step in which the operator answered the prompt.
Answered == cli.pc = "prompt" /\ cli' # cli

\* C9: at a prompt the "show more" option is offered exactly when the page is
\* less than total_pages; when offered it is the last line, numbered
\* results.length + 1, and a valid choice, and answering it requests page + 1
\* of the same query and type; when not offered that number is no valid
\* choice and answering it only asks again.
C9_ShowMore ==
    /\ [](cli.pc = "prompt" =>
            /\ cli.showMoreResults <=> cli.page < cli.total_pages
            /\ cli.showMoreResults =>
                 /\ includes(cli.validResponses, ShowMoreOpt)
                 /\ Len(cli.menu) = Len(cli.results) + 1
                 /\ cli.menu[Len(cli.menu)] = [opt |-> ShowMoreOpt, more |-> TRUE]
            /\ ~cli.showMoreResults =>
                 /\ ~includes(cli.validResponses, ShowMoreOpt)
                 /\ \A k \in 1..Len(cli.menu) : ~cli.menu[k].more)
    /\ [][(Answered /\ cli'.response = ShowMoreOpt) =>
            IF cli.page < cli.total_pages
            THEN /\ cli'.pc = "search"
                 /\ cli'.page = cli.page + 1
                 /\ cli'.searchLog = Append(cli.searchLog,
                        [query |-> cli.query, type |-> cli.type, page |-> cli.page + 1])
                 /\ cli'.detailsLog = cli.detailsLog
            ELSE /\ cli'.pc = "prompt"
                 /\ cli'.searchLog = cli.searchLog
                 /\ cli'.detailsLog = cli.detailsLog]_vars

\* C9 witness: the option was chosen on page 1 and page 2 has been requested.
C9_Witness ==
    /\ cli.pc = "search" /\ cli.page = 2
    /\ cli.choice = ShowMoreOpt
    /\ Len(cli.results) >= 1
    /\ cli.searchLog[2] = [query |-> cli.query, type |-> cli.type, page |-> 2]

\* C10: a value returned by handleUserInput is an element of validResponses,
\* and a response outside validResponses leads to another prompt with the same
\* validResponses, no value returned and no search or details fetch issued.
C10_Reprompt ==
    /\ [](cli.choice # NoChoice => includes(cli.validResponses, cli.choice))
    /\ [][(Answered /\ ~includes(cli.validResponses, cli'.response)) =>
            /\ cli'.pc = "prompt"
            /\ cli'.validResponses = cli.validResponses
            /\ cli'.prompts = cli.prompts + 1
            /\ cli'.choice = NoChoice
            /\ cli'.searchLog = cli.searchLog
            /\ cli'.detailsLog = cli.detailsLog]_vars

\* C10 witness: every response so far was invalid and the operator is asked
\* for the MaxPrompts-th time.
C10_Witness ==
    /\ cli.pc = "prompt" /\ cli.prompts = MaxPrompts
    /\ cli.validResponses # <<>>
    /\ ~includes(cli.validResponses, cli.response)

Listed(k) == k \in 1..Len(cli.results)

\* C11: answering the prompt with the number k of a listed result issues one
\* details fetch, for that result's id and the searched media type, and ends
\* the flow: from then on no details fetch and no search page is requested.
C11_PickEnds ==
    /\ [][\A k \in 1..MaxShown + 1 :
            (Answered /\ Listed(k) /\ cli'.response = toString(k)) =>
               /\ cli'.pc = "details"
               /\ cli'.detailsLog = <<[id |-> cli.results[k].id, type |-> cli.type]>>
               /\ cli'.searchLog = cli.searchLog]_vars
    /\ [][cli.pc \in {"details", "done", "failed", "end"} =>
            /\ cli'.pc \in {"done", "failed", "end"} \/ cli'.pc = cli.pc
            /\ cli'.detailsLog = cli.detailsLog
            /\ cli'.searchLog = cli.searchLog]_vars

\* C11 witness: the second of two listed results was picked on page 2 and its
\* details have arrived.
C11_Witness ==
    /\ cli.pc = "done"
    /\ cli.page = 2
    /\ cli.choice = toString(2)
    /\ Len(cli.results) = 2
    /\ cli.detailsLog = <<[id |-> cli.results[2].id, type |-> cli.type]>>

\* A prompt on a page that lists no result and is not followed by another.
DeadEnd ==
    /\ cli.pc = "prompt"
    /\ cli.results = <<>>
    /\ ~(cli.page < cli.total_pages)

\* C17: on a page with no results whose number is not below total_pages the
\* set of valid choices is empty, and every answer of the operator leads to
\* the same prompt again: the flow never reaches a terminal state and issues
\* no search or details request.
C17_DeadEnd ==
    /\ [](DeadEnd => cli.validResponses = <<>> /\ cli.menu = <<>>)
    /\ [][DeadEnd =>
            /\ DeadEnd'
            /\ cli'.searchLog = cli.searchLog
            /\ cli'.detailsLog = cli.detailsLog
            /\ cli'.choice = NoChoice
            /\ Answered => cli'.prompts = cli.prompts + 1]_vars

\* C17 witness: page 2 of 2 came back empty after "show more", and the
\* operator, having answered it twice, is asked for the MaxPrompts-th time.
C17_Witness ==
    /\ DeadEnd
    /\ cli.page = 2
    /\ cli.prompts = MaxPrompts
    /\ cli.response # NoChoice
    /\ Len(cli.searchLog) = 2 /\ cli.detailsLog = <<>>

\* ========================================================= result formatter
EndsWith(text, tail) ==
    /\ Len(text) >= Len(tail)
    /\ SubSeq(text, Len(text) - Len(tail) + 1, Len(text)) = tail
StartsWith(text, head) ==
    /\ Len(text) >= Len(head)
    /\ SubSeq(text, 1, Len(head)) = head
FmtDate == fmt.result.date

\* C12 as stated: for the date "1984-10-26" the derived year is 1984 and the
\* title is "<title> (1984)"; for an empty or absent date the year is
\* undefined and the year segment of the title and of the message body reads
\* "()".
C12_Original ==
    fmt.pc = "done" =>
      /\ FmtDate = Defined(<<"1", "9", "8", "4", "-", "1", "0", "-", "2", "6">>) =>
           /\ fmt.year = Defined(<<"1", "9", "8", "4">>)
           /\ fmt.out.title = fmt.result.title \o <<" ", "(", "1", "9", "8", "4", ")">>
      /\ (~FmtDate.defined \/ FmtDate.text = <<>>) =>
           /\ ~fmt.year.defined
           /\ fmt.out.title = fmt.result.title \o <<" ", "(", ")">>
           /\ StartsWith(fmt.body, fmt.result.title \o <<" ", "(", ")">>)

StreamingOn == <<"S", "t", "r", "e", "a", "m", "i", "n", "g", " ", "o", "n", ":", "\n">>
HasFlatrate(p) ==
    p.hasResults /\ p.hasUS /\ p.hasFlatrate /\ p.flatrate # <<>>
Header == titleText(titleOf(fmt.result, fmt.type), fmt.year) \o <<"\n", "\n">>

\* C13 as stated: the message body has the "Streaming on:" block exactly when
\* the US region has at least one flatrate provider: then it ends in
\* "Streaming on:\n" and the provider names, one per line in upstream order;
\* otherwise (no results, no US, no flatrate list or an empty one) the body is
\* the title line and the blank line only.
C13_Original ==
    fmt.pc = "done" =>
      IF HasFlatrate(fmt.providers)
      THEN EndsWith(fmt.body, StreamingOn \o joinLines(fmt.providers.flatrate))
      ELSE fmt.body = Header

\* ============================================================= escapeRegExp
\* The reserved characters as the claim lists them.
C14_Reserved ==
    {"-", "[", "]", "{", "}", "(", ")", "*", "+", "!", "?", ".", ",", "\\", "^",
     "$", "|", "#", " ", "\n", "\t", "\r"}
\* Reserved characters among the first i characters of the input.
ReservedUpTo(i) == Cardinality({ j \in 1..i : esc.text[j] \in C14_Reserved })
OutPos(i) == i + ReservedUpTo(i)

\* C14: the output of escapeRegExp is the input with one backslash added in
\* front of every reserved character and nothing else changed: character i of
\* the input stands at position i + (reserved characters up to i), a reserved
\* one right after an added backslash, the output has no other character, and
\* an input without reserved characters is returned as it is.
C14_Escaped ==
    esc.pc = "done" =>
      /\ Len(esc.out) = Len(esc.text) + ReservedUpTo(Len(esc.text))
      /\ \A i \in 1..Len(esc.text) :
           /\ esc.out[OutPos(i)] = esc.text[i]
           /\ esc.text[i] \in C14_Reserved => esc.out[OutPos(i) - 1] = "\\"
      /\ ReservedUpTo(Len(esc.text)) = 0 => esc.out = esc.text

\* C14 witness: a text that begins and ends with a reserved character, each
\* of which got its backslash.
C14_Witness ==
    /\ esc.pc = "done"
    /\ Len(esc.text) >= 2
    /\ esc.text[1] \in C14_Reserved /\ esc.text[Len(esc.text)] \in C14_Reserved
    /\ Len(esc.out) = Len(esc.text) + 2

\* ==================================================================== fetch
\* C15: a call of fetch sends one request and calls resolve or reject at most
\* once, exactly once when the request is over: resolve with the parsed body
\* when the body is valid JSON, whatever the status code, reject with the
\* parse error when it is not, reject with the transport error when the
\* request emitted 'error'; the rejection with the status code never happens.
C15_SettlesOnce ==
    /\ req.requests <= 1
    /\ Len(req.settles) <= 1
    /\ \A i \in 1..Len(req.settles) : req.settles[i].reason # "status"
    /\ req.pc = "closed" =>
         /\ Len(req.settles) = 1
         /\ IF req.error # "none"
            THEN req.settles[1].settled = "rejected" /\ req.settles[1].reason = "transport"
            ELSE IF req.valid
            THEN req.settles[1].settled = "resolved" /\ req.settles[1].value = req.json
            ELSE req.settles[1].settled = "rejected" /\ req.settles[1].reason = "parse"

\* C15 witness: a 404 response with a JSON body resolved the promise.
C15_Witness ==
    /\ req.pc = "closed"
    /\ req.statusCode = 404
    /\ Len(req.settles) = 1
    /\ req.settles[1].settled = "resolved"

\* ===================================================== body without results
\* C16: when a search resolves with a JSON object that has no results field,
\* getInlineResultsMap returns undefined for that type and issues no
\* watch-provider fetch; after such a movie response the TV search is issued
\* all the same, and once both maps have returned the merge throws: the
\* handler fails and the query never gets an answerInlineQuery call.
C16_NoResultsField ==
    \A q \in QueryIds :
        /\ \A t \in Media :
             bodyKind[q][t] = "noResults" =>
               /\ mapped[q][t] = Undefined
               /\ provFetch[q][t] = <<>>
               /\ AnswersFor(q) = {}
        /\ bodyKind[q]["movie"] = "noResults" => search[q]["tv"] # "none"
        /\ ( /\ \E t \in Media : bodyKind[q][t] = "noResults"
             /\ \A t \in Media : mapped[q][t].st # "none" )
           => pc[q] = "failed"

\* C16 witness: the movie search had no results field, the TV search and its
\* watch-provider fetches ran and produced formatted results, and the handler
\* failed without a reply.
C16_Witness ==
    \E q \in QueryIds :
        /\ bodyKind[q]["movie"] = "noResults"
        /\ mapped[q]["tv"].st = "list" /\ Len(mapped[q]["tv"].list) >= 1
        /\ Len(provFetch[q]["tv"]) >= 1
        /\ pc[q] = "failed"
        /\ AnswersFor(q) = {}

====
